---- MODULE Spec2Model ----
(***************************************************************************)
(* State-machine model of src/server.js: the live event relay that keeps   *)
(* one upstream connection wrapper per streamer id, stores the events of   *)
(* each streamer, pushes them to the subscribed sockets and serves them to *)
(* polling requesters through GET /events.                                 *)
(*                                                                         *)
(* Node runs every handler to completion on one dispatch loop, so each     *)
(* handler (setStreamerId, disconnect, GET /events, an upstream listener)  *)
(* is one atomic action.  The clock Date.now() is an environment variable  *)
(* that never decreases; a handler reads one value of it.                  *)
(***************************************************************************)
EXTENDS Integers, Sequences, FiniteSets, TLC

\* ---------------------------------------------------------------- bounds
\* A run is bounded by the limits it starts with (variable limits): how often
\* the clock moves and by how much, how many upstream events arrive, how long
\* a socket list grows, which streamers are asked for, which sockets connect,
\* which requesters poll, for which of them the history variables are kept
\* (getEvents treats every requester id alike) and which wrappers' connect()
\* settles.  The pull runs are wide in time and events, the push runs in
\* sockets and subscriptions.
PullMaxTicks == 2
PullMaxEvents == 2
PullMaxSocketListLen == 1
PushMaxTicks == 1
PushMaxEvents == 1
PushMaxSocketListLen == 2
MaxTicks == 1
MaxEvents == 1
MaxSocketListLen == 1

\* ------------------------------------------------------------- constants
\* src/server.js:14   const DELETE_EVENTS_AGE = 30 * 60 * 1000;
DELETE_EVENTS_AGE == 30 * 60 * 1000

\* ---------------------------------------------------------- input domains
StreamerIds == {"alice", "bob"}
RequesterIds == {"r1", "r2"}
Sockets == {"s1", "s2"}

\* JavaScript undefined, for string-valued slots and absent query parameters
Undefined == "undefined"

\* The content event kinds of eventTypesToStore that the model draws from:
\* one with a transformer (chat) and one without (emote, stored as is).  The
\* kind gift is drawn by GiftStep, with payloads of its own.
eventTypesToStore == {"chat", "emote"}

\* The option object a push client sends, as the set of its field names.
ClientOptions == {{"requestOptions"}}

\* Clock steps: the next millisecond, or to just past a retention window.
ClockSteps == {1, DELETE_EVENTS_AGE + 1}

VARIABLES
    limits,                                 \* the bounds of this run (never changes)
    now,                                    \* Date.now()
    ticks,                                  \* clock steps taken (bounded)
    wrappers,                               \* every TikTokConnectionWrapper that was created and kept
    streamerIdToTikTokConnectionWrapperMap, \* streamer id -> index in wrappers
    streamEvents,                           \* streamer id -> stored events
    requesterIdToLastRequestTimestamp,      \* requester id -> cursor
    streamerIdToSocketsMap,                 \* streamer id -> list of sockets
    socketTostreamerIdMap,                  \* property key -> streamer id
    socketState,                            \* socket -> "none" | "open" | "closed"
    origin,                                 \* history: the streamer of each upstream event, by msgId
    polledAt,                               \* history: (requester, streamer) -> Len(origin) at its last valid poll
    returned,                               \* history: requester -> msgIds returned to it so far
    seen                                    \* history: the kinds of handler runs noted so far

vars == <<limits, now, ticks, wrappers, streamerIdToTikTokConnectionWrapperMap, streamEvents,
          requesterIdToLastRequestTimestamp, streamerIdToSocketsMap, socketTostreamerIdMap,
          socketState, origin, polledAt, returned, seen>>

clockVars == <<limits, now, ticks>>
registryVars == <<wrappers, streamerIdToTikTokConnectionWrapperMap>>
pushVars == <<streamerIdToSocketsMap, socketTostreamerIdMap, socketState>>
pollVars == <<requesterIdToLastRequestTimestamp, polledAt, returned>>

\* ------------------------------------------------------- pure functions

\* userBaseData(data)
userBaseData(data) ==
    [userId |-> data.userId, uniqueId |-> data.uniqueId,
     nickname |-> data.nickname, profilePictureUrl |-> data.profilePictureUrl]

\* eventTypeToTransformer.chat
chatTransformer(data, t) ==
    [type |-> "chat", timestamp |-> t,
     data |-> [comment |-> data.comment, contentLanguage |-> data.contentLanguage,
               user |-> userBaseData(data)]]

\* isPendingStreak without the test of repeatEnd
isPendingStreak_anyStreak(data) == data.giftType = 1

\* isPendingStreak(data); an absent repeatEnd is falsy, as FALSE is
isPendingStreak(data) == data.giftType = 1 /\ ~data.repeatEnd

\* eventTypeToTransformer.gift
giftTransformer(data, t) ==
    [type |-> "gift", timestamp |-> t,
     data |-> [giftId |-> data.giftId, giftName |-> data.giftName,
               giftType |-> data.giftType, giftPictureUrl |-> data.giftPictureUrl,
               diamondCount |-> IF ~isPendingStreak(data) /\ data.diamondCount > 0
                                THEN data.diamondCount * data.repeatCount
                                ELSE 0,
               user |-> userBaseData(data)]]

\* the else branch of the listener: no transformer for the kind
untransformed(eventType, data, t) ==
    [type |-> eventType, data |-> data, timestamp |-> t]

\* what the content listener stores for one upstream event
storedEvent(eventType, data, t) ==
    IF eventType = "chat" THEN chatTransformer(data, t)
    ELSE IF eventType = "gift" THEN giftTransformer(data, t)
    ELSE untransformed(eventType, data, t)

\* The raw upstream payload of the n-th content event of the run.
RawPayload(n) ==
    [msgId |-> n, userId |-> 7, uniqueId |-> "viewer", nickname |-> "Viewer",
     profilePictureUrl |-> "pic", comment |-> n, contentLanguage |-> "en"]

\* The raw upstream payloads of gift events: every combination of a gift
\* type (1 is a streakable gift), repeatEnd, a diamond count below, at and
\* above 0, and a repeat count.
GiftTypes == {0, 1, 2}
DiamondCounts == {0 - 1, 0, 5}
RepeatCounts == {1, 3}
GiftPayloads ==
    [msgId : {0}, userId : {7}, uniqueId : {"viewer"}, nickname : {"Viewer"},
     profilePictureUrl : {"pic"}, giftId : {11}, giftName : {"Rose"},
     giftPictureUrl : {"rose"}, giftType : GiftTypes, repeatEnd : BOOLEAN,
     diamondCount : DiamondCounts, repeatCount : RepeatCounts]

\* The msgId an event envelope or a response entry stems from.
MsgIdOf(e) == IF e.type = "chat" THEN e.data.comment ELSE e.data.msgId

\* createInitialEventContainer().events
createInitialEventContainer == <<>>

\* ------------------------------------------------------------- helpers

Range(s) == {s[i] : i \in 1..Len(s)}

\* obj[key] = value on a JavaScript object used as a map
Put(f, k, v) == [x \in DOMAIN f \cup {k} |-> IF x = k THEN v ELSE f[x]]

\* The property key a socket object is converted to when it indexes
\* socketTostreamerIdMap: String(socket), which is the same text for every
\* socket object.
SocketKey(socket) == "[object Object]"

\* socketTostreamerIdMap[socket]
StreamerIdOfSocket(socket) ==
    IF SocketKey(socket) \in DOMAIN socketTostreamerIdMap
    THEN socketTostreamerIdMap[SocketKey(socket)]
    ELSE Undefined

\* IndexOf that does not compare: the first position of a list that is not empty
IndexOf_first(list, socket) == IF Len(list) > 0 THEN 1 ELSE 0

\* socketList.indexOf(socket): the first position, 0 for JavaScript's -1
IndexOf(list, socket) ==
    IF \E i \in 1..Len(list) : list[i] = socket
    THEN CHOOSE i \in 1..Len(list) :
             list[i] = socket /\ \A j \in 1..(i - 1) : list[j] # socket
    ELSE 0

\* socketList.splice(socketIndex, 1)
Splice1(list, i) == SubSeq(list, 1, i - 1) \o SubSeq(list, i + 1, Len(list))

\* streamerIdToSocketsMap[streamerId]?.forEach(...): the sockets visited
SocketsOf(streamerId) ==
    IF streamerId \in DOMAIN streamerIdToSocketsMap
    THEN streamerIdToSocketsMap[streamerId]
    ELSE <<>>

\* EmitToAll when an emit to a closed socket throws: the forEach ends there
EmitToAll_abortsOnClosed(list, name, payload) ==
    LET closedAt == {i \in 1..Len(list) : socketState[list[i]] = "closed"}
        last == IF closedAt = {} THEN Len(list)
                ELSE CHOOSE i \in closedAt : \A j \in closedAt : i <= j
    IN  [i \in 1..last |-> [socket |-> list[i], name |-> name, payload |-> payload]]

\* one socket.emit(name, payload) per visited socket, in list order
EmitToAll(list, name, payload) ==
    [i \in 1..Len(list) |-> [socket |-> list[i], name |-> name, payload |-> payload]]

\* setStreamerId's treatment of the client's options
SanitizeOptions(options) == options \ {"requestOptions", "websocketOptions"}

\* options of GET /events
PollOptions == {"enableExtendedGiftInfo"}

\* streamEvents[streamerId].events, empty while there is no container
EventsOf(streamerId) ==
    IF streamerId \in DOMAIN streamEvents
    THEN streamEvents[streamerId]
    ELSE createInitialEventContainer

\* ------------------------------------- getOrCreateTiktokConnectionWrapper

ErrText == "Error: connect failed"

\* CacheHit with the lookup lost: every call builds a wrapper
CacheHit_never(streamerId) == FALSE

\* if (streamerIdToTikTokConnectionWrapperMap[streamerId])
CacheHit(streamerId) == streamerId \in DOMAIN streamerIdToTikTokConnectionWrapperMap

\* new TikTokConnectionWrapper(streamerId, options, true) with connect() under
\* way and both once-listeners registered
NewWrapper(streamerId, options) ==
    [streamerId |-> streamerId, options |-> options, connect |-> "pending",
     onceConnected |-> TRUE, onceDisconnected |-> TRUE]

\* AcquireResult with the error text lost in the catch block
AcquireResult_errorLost(streamerId, throws) ==
    IF CacheHit(streamerId)
    THEN [wrapper |-> streamerIdToTikTokConnectionWrapperMap[streamerId], errStr |-> Undefined]
    ELSE IF throws
         THEN [wrapper |-> 0, errStr |-> Undefined]
         ELSE [wrapper |-> Len(wrappers) + 1, errStr |-> Undefined]

\* The pair the function returns; wrapper 0 stands for undefined.  throws
\* tells whether the constructor or connect() throws synchronously.
AcquireResult(streamerId, throws) ==
    IF CacheHit(streamerId)
    THEN [wrapper |-> streamerIdToTikTokConnectionWrapperMap[streamerId], errStr |-> Undefined]
    ELSE IF throws
         THEN [wrapper |-> 0, errStr |-> ErrText]
         ELSE [wrapper |-> Len(wrappers) + 1, errStr |-> Undefined]

\* The function's effect on the wrapper map and on the set of wrappers.
getOrCreateTiktokConnectionWrapper(streamerId, options, throws) ==
    IF CacheHit(streamerId) \/ throws
    THEN UNCHANGED registryVars
    ELSE /\ wrappers' = Append(wrappers, NewWrapper(streamerId, options))
         /\ streamerIdToTikTokConnectionWrapperMap' =
                Put(streamerIdToTikTokConnectionWrapperMap, streamerId, Len(wrappers) + 1)

\* ------------------------------------------------------------ the state

PullLimits ==
    [maxTicks |-> PullMaxTicks, maxEvents |-> PullMaxEvents,
     maxSocketListLen |-> PullMaxSocketListLen,
     streamers |-> StreamerIds,
     sockets |-> {}, requesters |-> {"r1"}, observed |-> {"r1"},
     eventTypes |-> {"chat"}, settling |-> {}, clockSteps |-> ClockSteps,
     traced |-> {}]

\* two requesters of one streamer: the second requester's first poll finds
\* what the first one's polls have left in the store
FirstPollLimits ==
    [maxTicks |-> PullMaxTicks, maxEvents |-> PullMaxEvents,
     maxSocketListLen |-> PullMaxSocketListLen,
     streamers |-> {"alice"},
     sockets |-> {}, requesters |-> RequesterIds, observed |-> {"r1"},
     eventTypes |-> {"chat"}, settling |-> {}, clockSteps |-> ClockSteps,
     traced |-> {"rejectedPoll"}]

PushLimits ==
    [maxTicks |-> PushMaxTicks, maxEvents |-> PushMaxEvents,
     maxSocketListLen |-> PushMaxSocketListLen,
     streamers |-> StreamerIds,
     sockets |-> Sockets, requesters |-> {}, observed |-> {},
     eventTypes |-> eventTypesToStore, settling |-> {1, 2},
     clockSteps |-> {1}, traced |-> {}]

\* the push channel without the lifecycle of the wrappers, noting the
\* subscribes that are turned away and the relays to a list with a closed socket
RelayLimits ==
    [maxTicks |-> PushMaxTicks, maxEvents |-> PushMaxEvents,
     maxSocketListLen |-> PushMaxSocketListLen,
     streamers |-> StreamerIds,
     sockets |-> Sockets, requesters |-> {}, observed |-> {},
     eventTypes |-> {"chat"}, settling |-> {}, clockSteps |-> {1},
     traced |-> {"blockedSubscribe", "deadSocketRelay"}]

\* both channels of one socket and one requester, without the clock, noting
\* the polls that could not create their wrapper
AcquireLimits ==
    [maxTicks |-> MaxTicks, maxEvents |-> MaxEvents,
     maxSocketListLen |-> MaxSocketListLen,
     streamers |-> StreamerIds,
     sockets |-> {"s1"}, requesters |-> {"r1"}, observed |-> {},
     eventTypes |-> {"chat"}, settling |-> {1}, clockSteps |-> {1},
     traced |-> {"failedPoll"}]

\* the push channel of one streamer with the lifecycle of its wrapper, noting
\* the signals that the wrapper emits again
LifecycleLimits ==
    [maxTicks |-> PushMaxTicks, maxEvents |-> PushMaxEvents,
     maxSocketListLen |-> PushMaxSocketListLen,
     streamers |-> {"alice"},
     sockets |-> Sockets, requesters |-> {}, observed |-> {},
     eventTypes |-> {"chat"}, settling |-> {1}, clockSteps |-> {1},
     traced |-> {"repeatedSignal"}]

\* gift events of every payload, stored for one streamer that a poll has
\* opened
GiftLimits ==
    [maxTicks |-> MaxTicks, maxEvents |-> PullMaxEvents,
     maxSocketListLen |-> PullMaxSocketListLen,
     streamers |-> {"alice"},
     sockets |-> {}, requesters |-> {"r1"}, observed |-> {},
     eventTypes |-> {"gift"}, settling |-> {}, clockSteps |-> {1},
     traced |-> {}]

AllLimits ==
    [maxTicks |-> MaxTicks, maxEvents |-> MaxEvents,
     maxSocketListLen |-> MaxSocketListLen,
     streamers |-> StreamerIds,
     sockets |-> {"s1"}, requesters |-> {"r1"}, observed |-> {},
     eventTypes |-> {"chat"}, settling |-> {1}, clockSteps |-> {1},
     traced |-> {}]

Start ==
    /\ now = 1
    /\ ticks = 0
    /\ wrappers = <<>>
    /\ streamerIdToTikTokConnectionWrapperMap = <<>>
    /\ streamEvents = <<>>
    /\ requesterIdToLastRequestTimestamp = <<>>
    /\ streamerIdToSocketsMap = <<>>
    /\ socketTostreamerIdMap = <<>>
    /\ socketState = [s \in Sockets |-> "none"]
    /\ origin = <<>>
    /\ polledAt = <<>>
    /\ returned = [r \in RequesterIds |-> {}]
    /\ seen = {}

\* The history of handler runs that leave no other mark on the state: the
\* label is kept when the run happened and this run of the model traces it.
Noted(label, happened) ==
    IF happened /\ label \in limits.traced THEN seen \cup {label} ELSE seen

\* The clock moves on between two handlers.
Tick(d) ==
    /\ ticks < limits.maxTicks
    /\ now' = now + d
    /\ ticks' = ticks + 1
    /\ UNCHANGED <<limits, registryVars, streamEvents, pushVars, pollVars, origin, seen>>

\* io.on('connection'): a new socket; its handlers are registered
Connection(socket) ==
    /\ socket \in limits.sockets
    /\ socketState[socket] = "none"
    /\ socketState' = [socketState EXCEPT ![socket] = "open"]
    /\ UNCHANGED <<clockVars, registryVars, streamEvents, streamerIdToSocketsMap,
                   socketTostreamerIdMap, pollVars, origin, seen>>

\* ------------------------------------------------------ the push channel

RateLimitText == "You have opened too many connections or made too many connection requests."

\* RateLimited with rate limiting switched off
RateLimited_off(blocked) == FALSE

\* if (process.env.ENABLE_RATE_LIMIT && clientBlocked(io, socket))
RateLimited(blocked) == blocked

\* The socket.emit calls of one setStreamerId call.
setStreamerIdEmits(socket, streamerId, blocked, throws) ==
    IF RateLimited(blocked)
    THEN <<[socket |-> socket, name |-> "tiktokDisconnected", payload |-> RateLimitText]>>
    ELSE IF AcquireResult(streamerId, throws).wrapper # 0
         THEN <<>>
         ELSE <<[socket |-> socket, name |-> "tiktokDisconnected",
                 payload |-> AcquireResult(streamerId, throws).errStr]>>

\* socket.on('setUniqueId' | 'setstreamerId', setStreamerId).  blocked is the
\* value of process.env.ENABLE_RATE_LIMIT && clientBlocked(io, socket).
setStreamerId(socket, streamerId, options, blocked, throws) ==
    /\ socketState[socket] = "open"
    /\ streamerId \in limits.streamers
    /\ Len(SocketsOf(streamerId)) < limits.maxSocketListLen
    /\ UNCHANGED <<clockVars, streamEvents, socketState, pollVars, origin>>
    /\ seen' = Noted("blockedSubscribe", RateLimited(blocked))
    /\ IF RateLimited(blocked)
       THEN UNCHANGED <<registryVars, streamerIdToSocketsMap, socketTostreamerIdMap>>
       ELSE LET socketList == SocketsOf(streamerId)
                acq == AcquireResult(streamerId, throws)
            IN  /\ getOrCreateTiktokConnectionWrapper(streamerId, SanitizeOptions(options), throws)
                /\ IF acq.wrapper # 0
                   THEN /\ streamerIdToSocketsMap' =
                               Put(streamerIdToSocketsMap, streamerId, Append(socketList, socket))
                        /\ socketTostreamerIdMap' =
                               Put(socketTostreamerIdMap, SocketKey(socket), streamerId)
                   ELSE /\ streamerIdToSocketsMap' =
                               Put(streamerIdToSocketsMap, streamerId, socketList)
                        /\ UNCHANGED socketTostreamerIdMap

\* socket.on('disconnect')
disconnect(socket) ==
    /\ socketState[socket] = "open"
    /\ socketState' = [socketState EXCEPT ![socket] = "closed"]
    /\ UNCHANGED <<clockVars, registryVars, streamEvents, pollVars, origin, seen>>
    /\ LET streamerId == StreamerIdOfSocket(socket)
       IN  IF streamerId # Undefined
           THEN LET socketList == streamerIdToSocketsMap[streamerId]
                    socketIndex == IndexOf(socketList, socket)
                IN  /\ streamerIdToSocketsMap' =
                           [streamerIdToSocketsMap EXCEPT ![streamerId] =
                                IF socketIndex > 0 THEN Splice1(socketList, socketIndex)
                                ELSE socketList]
                    /\ socketTostreamerIdMap' =
                           Put(socketTostreamerIdMap, SocketKey(socket), Undefined)
           ELSE UNCHANGED <<streamerIdToSocketsMap, socketTostreamerIdMap>>

\* --------------------------------------------------- upstream listeners

\* streamerIdToSocketsMap[streamerId]?.forEach((socket) => socket.emit(eventType, data))
contentEventEmits(w, eventType) ==
    EmitToAll(SocketsOf(wrappers[w].streamerId), eventType, RawPayload(Len(origin) + 1))

\* events.unshift(event) for events.push(event)
Pushed_unshift(events, event) == <<event>> \o events

\* streamEvents[streamerId].events.push(event)
Pushed(events, event) == Append(events, event)

\* tiktokConnectionWrapper.connection.on(eventType, data => ...), fired by
\* wrapper w with the raw payload data
contentEventOf(w, eventType, data) ==
    /\ w \in 1..Len(wrappers)
    /\ eventType \in limits.eventTypes
    /\ Len(origin) < limits.maxEvents
    /\ LET streamerId == wrappers[w].streamerId
       IN  /\ streamEvents' =
                  Put(streamEvents, streamerId,
                      Pushed(EventsOf(streamerId), storedEvent(eventType, data, now)))
           /\ origin' = Append(origin, streamerId)
    /\ seen' = Noted("deadSocketRelay",
                     LET list == SocketsOf(wrappers[w].streamerId)
                     IN  /\ \E i \in 1..Len(list) : socketState[list[i]] = "closed"
                         /\ \E i \in 1..Len(list) : socketState[list[i]] = "open")
    /\ UNCHANGED <<clockVars, registryVars, pushVars, pollVars>>

\* the listener of a catalogued kind, fired with the next raw payload
contentEvent(w, eventType) == contentEventOf(w, eventType, RawPayload(Len(origin) + 1))

\* the listener of the kind gift, fired with a gift payload
giftEvent(w, data) == contentEventOf(w, "gift", data)

\* The asynchronous connect() of wrapper w ends, with success or with failure.
\* Nothing in server.js awaits it or listens for its failure.
connectSettles(w, ok) ==
    /\ w \in 1..Len(wrappers)
    /\ w \in limits.settling
    /\ wrappers[w].connect = "pending"
    /\ wrappers' = [wrappers EXCEPT ![w].connect = IF ok THEN "connected" ELSE "failed"]
    /\ UNCHANGED <<clockVars, streamerIdToTikTokConnectionWrapperMap, streamEvents,
                   pushVars, pollVars, origin, seen>>

\* onConnectedEmits of a listener registered with on(...): it stays registered
onConnectedEmits_on(w) ==
    EmitToAll(SocketsOf(wrappers[w].streamerId), "tiktokConnected", "state")

\* the socket.emit calls made when wrapper w emits 'connected'
onConnectedEmits(w) ==
    IF wrappers[w].onceConnected
    THEN EmitToAll(SocketsOf(wrappers[w].streamerId), "tiktokConnected", "state")
    ELSE <<>>

\* tiktokConnectionWrapper.once('connected', state => ...): wrapper w emits it
onConnected(w) ==
    /\ w \in 1..Len(wrappers)
    /\ wrappers[w].connect = "connected"
    /\ wrappers' = [wrappers EXCEPT ![w].onceConnected = FALSE]
    /\ seen' = Noted("repeatedSignal", ~wrappers[w].onceConnected)
    /\ UNCHANGED <<clockVars, streamerIdToTikTokConnectionWrapperMap, streamEvents,
                   pushVars, pollVars, origin>>

\* the socket.emit calls made when wrapper w emits 'disconnected'
onDisconnectedEmits(w) ==
    IF wrappers[w].onceDisconnected
    THEN EmitToAll(SocketsOf(wrappers[w].streamerId), "tiktokDisconnected", "reason")
    ELSE <<>>

\* tiktokConnectionWrapper.once('disconnected', reason => ...): wrapper w emits it
onDisconnected(w) ==
    /\ w \in 1..Len(wrappers)
    /\ wrappers[w].connect # "pending"
    /\ wrappers' = [wrappers EXCEPT ![w].onceDisconnected = FALSE]
    /\ seen' = Noted("repeatedSignal", ~wrappers[w].onceDisconnected)
    /\ UNCHANGED <<clockVars, streamerIdToTikTokConnectionWrapperMap, streamEvents,
                   pushVars, pollVars, origin>>

\* ----------------------------------------------------------- GET /events

\* IsNewEvent with >= for >: an event stamped with the cursor's value passes
IsNewEvent_inclusive(event, cursor) == event.timestamp >= cursor

\* events.filter(event => event.timestamp > requesterIdToLastRequestTimestamp[requesterId])
IsNewEvent(event, cursor) == event.timestamp > cursor

NewEvents(events, cursor) == SelectSeq(events, LAMBDA event : IsNewEvent(event, cursor))

\* events.filter(event => event.timestamp > (Date.now() - DELETE_EVENTS_AGE))
KeptEvents(events, t) == SelectSeq(events, LAMBDA event : event.timestamp > t - DELETE_EVENTS_AGE)

\* newEvents.map(event => ({ type: event.type, data: event.data }))
ResponseEntry(event) == [type |-> event.type, data |-> event.data]

ResponseEntries(newEvents) == [i \in 1..Len(newEvents) |-> ResponseEntry(newEvents[i])]

\* if (!requesterIdToLastRequestTimestamp[requesterId]); a stored cursor is a
\* clock value, which is never 0
IsNewRequester(requesterId) == requesterId \notin DOMAIN requesterIdToLastRequestTimestamp

\* FirstPollEvents without the early return: the stored history is replayed
FirstPollEvents_replay(events) == events

\* the events of the answer to a requester that was just registered
FirstPollEvents(events) == <<>>

\* AdvancedCursor with the assignment lost: the cursor stays where it was
AdvancedCursor_stale(cursor, t) == cursor

\* requesterIdToLastRequestTimestamp[requesterId] = Date.now()
AdvancedCursor(cursor, t) == t

\* getEventsOutcome without the two parameter tests
getEventsOutcome_unvalidated(streamerId, requesterId, throws) ==
    IF AcquireResult(streamerId, throws).errStr # Undefined THEN "error"
    ELSE IF IsNewRequester(requesterId) THEN "first"
    ELSE "ok"

\* Which return statement the handler leaves by.
getEventsOutcome(streamerId, requesterId, throws) ==
    IF streamerId = Undefined \/ requesterId = Undefined THEN "invalid"
    ELSE IF AcquireResult(streamerId, throws).errStr # Undefined THEN "error"
    ELSE IF IsNewRequester(requesterId) THEN "first"
    ELSE "ok"

\* the events the handler selects for the requester
getEventsNewEvents(streamerId, requesterId) ==
    IF IsNewRequester(requesterId)
    THEN FirstPollEvents(EventsOf(streamerId))
    ELSE NewEvents(EventsOf(streamerId), requesterIdToLastRequestTimestamp[requesterId])

\* res.status(400).send(...) or res.json(...)
getEventsResponse(streamerId, requesterId, throws) ==
    LET outcome == getEventsOutcome(streamerId, requesterId, throws)
    IN  IF outcome = "invalid"
        THEN [status |-> 400, events |-> <<>>,
              message |-> IF streamerId = Undefined THEN "Missing streamerId parameter."
                          ELSE "Missing requesterId parameter."]
        ELSE IF outcome = "error"
        THEN [status |-> 200, events |-> <<>>,
              message |-> AcquireResult(streamerId, throws).errStr]
        ELSE [status |-> 200,
              events |-> ResponseEntries(getEventsNewEvents(streamerId, requesterId)),
              message |-> IF outcome = "first" THEN "New ID registered. No events yet."
                          ELSE Undefined]

\* app.get('/events'), with req.query = { streamerId, requesterId }
getEvents(streamerId, requesterId, throws) ==
    /\ streamerId \in limits.streamers \cup {Undefined}
    /\ requesterId \in limits.requesters \cup {Undefined}
    /\ UNCHANGED <<clockVars, pushVars, origin>>
    /\ seen' = LET outcome == getEventsOutcome(streamerId, requesterId, throws)
                IN  Noted(IF outcome = "error" THEN "failedPoll" ELSE "rejectedPoll",
                          outcome \in {"invalid", "error"})
    /\ LET outcome == getEventsOutcome(streamerId, requesterId, throws)
           newEvents == getEventsNewEvents(streamerId, requesterId)
       IN  IF outcome = "invalid"
           THEN UNCHANGED <<registryVars, streamEvents, pollVars>>
           ELSE /\ getOrCreateTiktokConnectionWrapper(streamerId, PollOptions, throws)
                /\ polledAt' = IF requesterId \in limits.observed
                               THEN Put(polledAt, <<requesterId, streamerId>>, Len(origin))
                               ELSE polledAt
                /\ IF outcome = "error"
                   THEN UNCHANGED <<streamEvents, requesterIdToLastRequestTimestamp, returned>>
                   ELSE /\ returned' = IF requesterId \in limits.observed
                                       THEN [returned EXCEPT ![requesterId] =
                                                @ \cup {MsgIdOf(e) : e \in Range(newEvents)}]
                                       ELSE returned
                        /\ IF outcome = "first"
                           THEN /\ streamEvents' =
                                       Put(streamEvents, streamerId, EventsOf(streamerId))
                                /\ requesterIdToLastRequestTimestamp' =
                                       Put(requesterIdToLastRequestTimestamp, requesterId, now)
                           ELSE /\ requesterIdToLastRequestTimestamp' =
                                       Put(requesterIdToLastRequestTimestamp, requesterId,
                                           AdvancedCursor(requesterIdToLastRequestTimestamp[requesterId], now))
                                /\ streamEvents' =
                                       Put(streamEvents, streamerId,
                                           KeptEvents(EventsOf(streamerId), now))

\* setInterval(() => io.emit('statistic', ...), 5000): to every connected
\* socket; no state of the relay changes
statisticEmits ==
    {[socket |-> s, name |-> "statistic", payload |-> "globalConnectionCount"] :
        s \in {x \in Sockets : socketState[x] = "open"}}

\* ------------------------------------------------------ the specification

\* the clock
ClockStep == \E d \in limits.clockSteps : Tick(d)

\* the handlers of the push channel
PushStep ==
    \/ \E socket \in Sockets : Connection(socket)
    \/ \E socket \in Sockets, streamerId \in StreamerIds, options \in ClientOptions,
          blocked \in BOOLEAN, throws \in BOOLEAN :
           setStreamerId(socket, streamerId, options, blocked, throws)
    \/ \E socket \in Sockets : disconnect(socket)

\* the handler of the pull endpoint
PullStep ==
    \E streamerId \in StreamerIds \cup {Undefined},
       requesterId \in RequesterIds \cup {Undefined}, throws \in BOOLEAN :
        getEvents(streamerId, requesterId, throws)

\* the content listeners of the wrappers
ContentStep ==
    \E w \in 1..Len(wrappers), eventType \in eventTypesToStore : contentEvent(w, eventType)

\* the gift listeners of the wrappers
GiftStep ==
    \E w \in 1..Len(wrappers), data \in GiftPayloads : giftEvent(w, data)

\* the asynchronous connect and the lifecycle listeners of the wrappers
LifecycleStep ==
    \/ \E w \in 1..Len(wrappers), ok \in BOOLEAN : connectSettles(w, ok)
    \/ \E w \in 1..Len(wrappers) : onConnected(w)
    \/ \E w \in 1..Len(wrappers) : onDisconnected(w)

Next == ClockStep \/ PushStep \/ PullStep \/ ContentStep \/ LifecycleStep

\* The pull endpoint alone: getEvents reads and writes the wrapper map, the
\* stored events and the cursors, which no handler of the push channel and no
\* lifecycle listener writes, but for setStreamerId creating a wrapper as
\* getEvents does.
NextPull == ClockStep \/ PullStep \/ ContentStep

\* The push channel alone: its handlers and the listeners read no clock and no
\* cursor.
NextPush == PushStep \/ ContentStep \/ LifecycleStep

\* The push channel between the sockets and the content listeners.
NextRelay == PushStep \/ ContentStep

\* Every handler and listener, at one reading of the clock: none but
\* getEvents and the content listeners read it.
NextAcquire == PushStep \/ PullStep \/ ContentStep \/ LifecycleStep

\* The pull endpoint and the gift listeners.
NextGift == ClockStep \/ PullStep \/ GiftStep

InitPull == Start /\ limits = PullLimits
InitFirstPoll == Start /\ limits = FirstPollLimits
InitPush == Start /\ limits = PushLimits
InitGift == Start /\ limits = GiftLimits
InitLifecycle == Start /\ limits = LifecycleLimits
InitAcquire == Start /\ limits = AcquireLimits
InitRelay == Start /\ limits = RelayLimits
Init == Start /\ limits = AllLimits

SpecPull == InitPull /\ [][NextPull]_vars
SpecFirstPoll == InitFirstPoll /\ [][NextPull]_vars
SpecPush == InitPush /\ [][NextPush]_vars
SpecGift == InitGift /\ [][NextGift]_vars
SpecLifecycle == InitLifecycle /\ [][NextPush]_vars
SpecAcquire == InitAcquire /\ [][NextAcquire]_vars
SpecRelay == InitRelay /\ [][NextRelay]_vars
Spec == Init /\ [][Next]_vars

\* ================================================================ claims

\* the kept wrappers that were built for a streamer id
WrappersOf(streamerId) ==
    {w \in 1..Len(wrappers) : wrappers[w].streamerId = streamerId}

\* how often a socket occurs in a list of sockets or of emit calls
Occurrences(list, socket) == Cardinality({i \in 1..Len(list) : list[i] = socket})

EmitsTo(calls, socket) == Cardinality({i \in 1..Len(calls) : calls[i].socket = socket})

\* the streamers whose socket list holds the socket
StreamersOfSocket(socket) ==
    {s \in DOMAIN streamerIdToSocketsMap : Occurrences(streamerIdToSocketsMap[s], socket) > 0}

\* C1: whatever subscribes and polls were made, at most one wrapper was ever
\* created and kept for a streamer id, and it is the one the map holds: the
\* first successful call created it and every later call found it.
C1_OneWrapperPerStreamer ==
    \A s \in StreamerIds :
        /\ Cardinality(WrappersOf(s)) <= 1
        /\ CacheHit(s) =>
               WrappersOf(s) = {streamerIdToTikTokConnectionWrapperMap[s]}
        /\ ~CacheHit(s) => WrappersOf(s) = {}

\* C1 witness: the only streamer in the map has its one wrapper, and it was
\* acquired both by a subscribe (the socket is in its list) and by a poll (the
\* requester is registered, which takes an answered poll of a mapped streamer).
C1_Witness ==
    \E s \in StreamerIds :
        /\ DOMAIN streamerIdToTikTokConnectionWrapperMap = {s}
        /\ Occurrences(SocketsOf(s), "s1") = 1
        /\ ~IsNewRequester("r1")
        /\ Len(wrappers) = 1

\* C2: a wrapper whose construction or connect failed, synchronously or
\* asynchronously, is not left in the map for its streamer id.
C2_NoFailedWrapperCached ==
    \A s \in StreamerIds :
        CacheHit(s) => wrappers[streamerIdToTikTokConnectionWrapperMap[s]].connect # "failed"

\* C3: a socket is in the socket list of at most one streamer.
C3_SocketInOneList ==
    \A socket \in Sockets : Cardinality(StreamersOfSocket(socket)) <= 1

\* C4: however often a socket subscribes to a streamer, it is in the list of
\* that streamer once, and a content event is emitted to it once.
C4_SubscribeIdempotent ==
    [][/\ \A s \in StreamerIds, socket \in Sockets :
              Occurrences(SocketsOf(s), socket)' <= 1
       /\ \A w \in 1..Len(wrappers), eventType \in eventTypesToStore, socket \in Sockets :
              contentEvent(w, eventType) => EmitsTo(contentEventEmits(w, eventType), socket) <= 1
      ]_vars

\* C5: when the disconnect handler of a subscribed socket has run, the socket
\* is in no socket list (so nothing is emitted to it any more), whatever
\* other sockets did.  Stated for a socket that subscribed once, so that it
\* is the disconnect handler alone that decides.
C5_DisconnectLeaves ==
    [][\A socket \in Sockets :
           (/\ disconnect(socket)
            /\ Cardinality(StreamersOfSocket(socket)) = 1
            /\ \A s \in StreamersOfSocket(socket) :
                   Occurrences(streamerIdToSocketsMap[s], socket) = 1)
           => StreamersOfSocket(socket)' = {}
      ]_vars

\* ------------------------------------------------- claims on GET /events

\* the msgIds of a response, in order
ResponseIds(response) == [i \in 1..Len(response.events) |-> MsgIdOf(response.events[i])]

NoDuplicates(seq) == \A i, j \in 1..Len(seq) : seq[i] = seq[j] => i = j

\* the msgIds stored for a streamer since the requester's previous poll of it
ArrivedSince(requesterId, streamerId) ==
    {m \in (polledAt[<<requesterId, streamerId>>] + 1)..Len(origin) : origin[m] = streamerId}

\* the streamers a requester has polled
PolledBy(requesterId) == {k[2] : k \in {x \in DOMAIN polledAt : x[1] = requesterId}}

\* the entries {type, data} of the events stamped after c, in stored order
RECURSIVE EntriesAfter(_, _)
EntriesAfter(events, c) ==
    IF events = <<>> THEN <<>>
    ELSE (IF Head(events).timestamp > c
          THEN <<[type |-> Head(events).type, data |-> Head(events).data]>>
          ELSE <<>>) \o EntriesAfter(Tail(events), c)

\* the stored event a response entry was made from
StoredTimestamps(streamerId, entry) ==
    {e.timestamp : e \in {x \in Range(EventsOf(streamerId)) : MsgIdOf(x) = MsgIdOf(entry)}}

\* C6 as claimed: a poll with both parameters by a requester without a cursor
\* answers no events and sets the requester's cursor to the current time.
C6_FirstPollRegisters ==
    [][\A s \in StreamerIds, r \in RequesterIds, throws \in BOOLEAN :
           (getEvents(s, r, throws) /\ IsNewRequester(r))
           => /\ getEventsResponse(s, r, throws).events = <<>>
              /\ ~IsNewRequester(r)'
              /\ requesterIdToLastRequestTimestamp'[r] = now
      ]_vars

\* C6 as amended: a poll with both parameters by a requester without a
\* cursor, unless the wrapper could not be created, answers no events,
\* whatever is stored for the streamer, and sets the cursor to the current time.
C6_FirstAnsweredPollRegisters ==
    [][\A s \in StreamerIds, r \in RequesterIds, throws \in BOOLEAN :
           (/\ getEvents(s, r, throws)
            /\ IsNewRequester(r)
            /\ AcquireResult(s, throws).errStr = Undefined)
           => /\ getEventsResponse(s, r, throws).events = <<>>
              /\ ~IsNewRequester(r)'
              /\ requesterIdToLastRequestTimestamp'[r] = now
      ]_vars

\* C6 witness: r1 has just been registered by a poll of a streamer that has an
\* event stored from more than a retention window ago (a poll that answers
\* from the store would have removed it), and r1 was given nothing.
C6_Witness ==
    \E s \in StreamerIds :
        /\ PolledBy("r1") = {s}
        /\ ~IsNewRequester("r1")
        /\ requesterIdToLastRequestTimestamp["r1"] = now
        /\ returned["r1"] = {}
        /\ \E e \in Range(EventsOf(s)) : e.timestamp + DELETE_EVENTS_AGE < now

\* C7: for a registered requester that polls one streamer, the events stored
\* between its previous poll and this one, and no others, are in the answer of
\* this poll, each once.
C7_ArrivedEventReturnedOnce ==
    [][\A s \in StreamerIds, r \in limits.observed, throws \in BOOLEAN :
           (/\ getEvents(s, r, throws)
            /\ ~IsNewRequester(r)
            /\ PolledBy(r) = {s})
           => /\ Range(ResponseIds(getEventsResponse(s, r, throws))) = ArrivedSince(r, s)
              /\ NoDuplicates(ResponseIds(getEventsResponse(s, r, throws)))
      ]_vars

C9_NoExpiredEventAnswered ==
    [][\A s \in StreamerIds, r \in RequesterIds, throws \in BOOLEAN :
           getEvents(s, r, throws)
           => \A i \in 1..Len(getEventsResponse(s, r, throws).events) :
                  \A ts \in StoredTimestamps(s, getEventsResponse(s, r, throws).events[i]) :
                      ts >= now - DELETE_EVENTS_AGE
      ]_vars

\* C10 as claimed: a poll by a requester that has a cursor answers the events
\* stored for the streamer that are stamped after the cursor, in stored order,
\* and leaves the cursor at the current time.
C10_PollAnswersNewerAndAdvances ==
    [][\A s \in StreamerIds, r \in RequesterIds, throws \in BOOLEAN :
           (getEvents(s, r, throws) /\ ~IsNewRequester(r))
           => /\ getEventsResponse(s, r, throws).events =
                     EntriesAfter(EventsOf(s), requesterIdToLastRequestTimestamp[r])
              /\ requesterIdToLastRequestTimestamp'[r] = now
      ]_vars

\* C10 as amended: the same, unless the wrapper could not be created (then
\* the answer is empty and the cursor stays).
C10_AnsweredPollNewerAndAdvances ==
    [][\A s \in StreamerIds, r \in RequesterIds, throws \in BOOLEAN :
           (/\ getEvents(s, r, throws)
            /\ ~IsNewRequester(r)
            /\ AcquireResult(s, throws).errStr = Undefined)
           => /\ getEventsResponse(s, r, throws).events =
                     EntriesAfter(EventsOf(s), requesterIdToLastRequestTimestamp[r])
              /\ requesterIdToLastRequestTimestamp'[r] = now
      ]_vars

\* C10 witness: r1 has been answered two events and its cursor is the
\* current time.
C10_Witness ==
    /\ Cardinality(returned["r1"]) >= 2
    /\ requesterIdToLastRequestTimestamp["r1"] = now

\* ------------------------------------------------ rejections and failures

\* C11: a poll without streamerId or without requesterId is answered with
\* status 400 and changes nothing: no wrapper is created or mapped, no event
\* container is created, no cursor is created or moved.
C11_InvalidPollChangesNothing ==
    [][\A s \in StreamerIds \cup {Undefined}, r \in RequesterIds \cup {Undefined},
          throws \in BOOLEAN :
           (getEvents(s, r, throws) /\ (s = Undefined \/ r = Undefined))
           => /\ getEventsResponse(s, r, throws).status = 400
              /\ UNCHANGED <<wrappers, streamerIdToTikTokConnectionWrapperMap, streamEvents,
                             requesterIdToLastRequestTimestamp>>
      ]_vars

\* C11 witness: polls were rejected, and nothing else was asked for: there is
\* no wrapper, no event container and no cursor.
C11_Witness ==
    /\ "rejectedPoll" \in seen
    /\ wrappers = <<>>
    /\ streamerIdToTikTokConnectionWrapperMap = <<>>
    /\ streamEvents = <<>>
    /\ requesterIdToLastRequestTimestamp = <<>>

\* C12: a subscribe of a socket that the rate limit turns away emits
\* tiktokDisconnected to that socket and nothing else, adds the socket to no
\* socket list and creates and maps no wrapper.
C12_BlockedSubscribeRegistersNothing ==
    [][\A socket \in Sockets, s \in StreamerIds, options \in ClientOptions, throws \in BOOLEAN :
           setStreamerId(socket, s, options, TRUE, throws)
           => /\ setStreamerIdEmits(socket, s, TRUE, throws) =
                     <<[socket |-> socket, name |-> "tiktokDisconnected",
                        payload |-> RateLimitText]>>
              /\ UNCHANGED <<wrappers, streamerIdToTikTokConnectionWrapperMap,
                             streamerIdToSocketsMap, socketTostreamerIdMap>>
      ]_vars

\* C12 witness: a connected socket was turned away and nothing else was asked
\* for: there is no wrapper and no socket list.
C12_Witness ==
    /\ "blockedSubscribe" \in seen
    /\ \E socket \in Sockets : socketState[socket] = "open"
    /\ wrappers = <<>>
    /\ streamerIdToSocketsMap = <<>>
    /\ socketTostreamerIdMap = <<>>

EmitSockets(calls) == {calls[i].socket : i \in 1..Len(calls)}

\* C14: the first 'connected' and the first 'disconnected' that a wrapper
\* emits are relayed to exactly the sockets in the socket list of its
\* streamer at that moment, under the names tiktokConnected and
\* tiktokDisconnected; a signal that was relayed once is not relayed again
\* when the wrapper emits it again, and no step re-arms a listener.
C14_SignalsRelayedOnce ==
    [][\A w \in 1..Len(wrappers) :
           /\ onConnected(w)
              => /\ EmitSockets(onConnectedEmits(w)) =
                        (IF wrappers[w].onceConnected
                         THEN Range(SocketsOf(wrappers[w].streamerId)) ELSE {})
                 /\ \A i \in 1..Len(onConnectedEmits(w)) :
                        onConnectedEmits(w)[i].name = "tiktokConnected"
                 /\ ~wrappers'[w].onceConnected
           /\ onDisconnected(w)
              => /\ EmitSockets(onDisconnectedEmits(w)) =
                        (IF wrappers[w].onceDisconnected
                         THEN Range(SocketsOf(wrappers[w].streamerId)) ELSE {})
                 /\ \A i \in 1..Len(onDisconnectedEmits(w)) :
                        onDisconnectedEmits(w)[i].name = "tiktokDisconnected"
                 /\ ~wrappers'[w].onceDisconnected
           /\ ~wrappers[w].onceConnected => ~wrappers'[w].onceConnected
           /\ ~wrappers[w].onceDisconnected => ~wrappers'[w].onceDisconnected
      ]_vars

\* C14 witness: both signals of a wrapper were relayed, the wrapper has
\* emitted one of them again, and two sockets are in the list of its streamer.
C14_Witness ==
    \E w \in 1..Len(wrappers) :
        /\ ~wrappers[w].onceConnected
        /\ ~wrappers[w].onceDisconnected
        /\ "repeatedSignal" \in seen
        /\ Range(SocketsOf(wrappers[w].streamerId)) = Sockets

\* C15: a wrapper that is mapped to a streamer id stays mapped to it, the
\* same wrapper with the options it was built with, whatever handler or
\* listener runs next (a subscribe, a poll, the disconnect of the last
\* subscriber); and a call for a mapped streamer id returns that wrapper,
\* whatever options the call passes.
C15_MappedWrapperStays ==
    [][\A s \in DOMAIN streamerIdToTikTokConnectionWrapperMap :
           LET w == streamerIdToTikTokConnectionWrapperMap[s]
           IN  /\ s \in DOMAIN streamerIdToTikTokConnectionWrapperMap'
               /\ streamerIdToTikTokConnectionWrapperMap'[s] = w
               /\ wrappers'[w].streamerId = s
               /\ wrappers'[w].options = wrappers[w].options
               /\ \A throws \in BOOLEAN :
                      AcquireResult(s, throws) = [wrapper |-> w, errStr |-> Undefined]
      ]_vars

\* C15 witness: the one wrapper was built by a subscribe (with the sanitized
\* options of the socket), a poll then asked for the same streamer with the
\* options of the pull endpoint, and the only subscriber has disconnected and
\* left the list: the wrapper is still mapped, with its first options.
C15_Witness ==
    \E s \in StreamerIds :
        /\ DOMAIN streamerIdToTikTokConnectionWrapperMap = {s}
        /\ Len(wrappers) = 1
        /\ wrappers[1].options = SanitizeOptions({"requestOptions"})
        /\ wrappers[1].options # PollOptions
        /\ ~IsNewRequester("r1")
        /\ socketState["s1"] = "closed"
        /\ SocketsOf(s) = <<>>

\* --------------------------------------------------------- content events

LastStored(streamerId) == EventsOf(streamerId)[Len(EventsOf(streamerId))]

\* C17: the gift event that is stored for a raw gift payload has diamondCount
\* 0 when the payload is a pending streak frame (giftType 1 and repeatEnd not
\* set) or its diamondCount is at most 0, and diamondCount times repeatCount
\* otherwise, for every gift type, repeatEnd, diamond count and repeat count.
C17_GiftDiamondCount ==
    [][\A w \in 1..Len(wrappers), data \in GiftPayloads :
           giftEvent(w, data)
           => /\ LastStored(wrappers[w].streamerId)'.type = "gift"
              /\ LastStored(wrappers[w].streamerId)'.data.diamondCount =
                     (IF (data.giftType = 1 /\ data.repeatEnd = FALSE) \/ data.diamondCount <= 0
                      THEN 0
                      ELSE data.diamondCount * data.repeatCount)
      ]_vars

\* C17 witness: two gift events of a streakable gift are stored, one with 15
\* diamonds (5 diamonds, 3 repeats, the streak ended) and one with none.
C17_Witness ==
    \E s \in StreamerIds :
        /\ \E e \in Range(EventsOf(s)) :
               e.type = "gift" /\ e.data.giftType = 1 /\ e.data.diamondCount = 15
        /\ \E e \in Range(EventsOf(s)) :
               e.type = "gift" /\ e.data.giftType = 1 /\ e.data.diamondCount = 0

\* C18: the payload emitted to the sockets for a content event is the data of
\* the event as it is stored for the pollers (the transformer's data), not
\* the raw upstream payload.
C18_PushedPayloadNormalized ==
    [][\A w \in 1..Len(wrappers), eventType \in eventTypesToStore :
           contentEvent(w, eventType)
           => \A i \in 1..Len(contentEventEmits(w, eventType)) :
                  contentEventEmits(w, eventType)[i].payload =
                      LastStored(wrappers[w].streamerId)'.data
      ]_vars

\* The events stored for a streamer are events of that streamer, each once,
\* in the order in which the upstream delivered them (msgIds count the
\* deliveries), with timestamps that do not decrease.
OrderedBuffer(streamerId) ==
    LET events == EventsOf(streamerId)
    IN  /\ \A i \in 1..Len(events) : origin[MsgIdOf(events[i])] = streamerId
        /\ \A i, j \in 1..Len(events) :
               i < j => /\ MsgIdOf(events[i]) < MsgIdOf(events[j])
                        /\ events[i].timestamp <= events[j].timestamp

\* C19: a content event is appended once, at the end of the stored events of
\* the streamer of its wrapper, and to those of no other streamer; and after
\* every step (an append, a poll, a sweep) the stored events of each streamer
\* are in upstream delivery order, each once, with non-decreasing timestamps.
C19_BufferKeepsDeliveryOrder ==
    [][/\ \A w \in 1..Len(wrappers), eventType \in eventTypesToStore :
              contentEvent(w, eventType)
              => LET s == wrappers[w].streamerId
                 IN  /\ Len(EventsOf(s))' = Len(EventsOf(s)) + 1
                     /\ SubSeq(EventsOf(s)', 1, Len(EventsOf(s))) = EventsOf(s)
                     /\ MsgIdOf(LastStored(s)') = Len(origin) + 1
                     /\ \A x \in StreamerIds \ {s} : EventsOf(x)' = EventsOf(x)
       /\ \A s \in StreamerIds : OrderedBuffer(s)'
      ]_vars

\* C19 witness: two events of one streamer are stored in the order of their
\* delivery, stamped at different times, and the requester has polled both.
C19_Witness ==
    \E s \in StreamerIds :
        /\ origin = <<s, s>>
        /\ Len(EventsOf(s)) = 2
        /\ EventsOf(s)[1].timestamp < EventsOf(s)[2].timestamp
        /\ returned["r1"] = {1, 2}

\* C20: the socket whose subscribe creates the wrapper is in the socket list
\* of the streamer when that handler ends, with both signals of the wrapper
\* still to come; a listed socket stays listed through every step but its own
\* disconnect; and the first 'connected' and the first 'disconnected' of a
\* wrapper are emitted to every listed socket.  So the creating socket is
\* emitted both signals unless it has disconnected.
C20_CreatorReceivesSignals ==
    [][/\ \A socket \in Sockets, s \in StreamerIds, options \in ClientOptions :
              (/\ setStreamerId(socket, s, options, FALSE, FALSE)
               /\ s \notin DOMAIN streamerIdToTikTokConnectionWrapperMap)
              => LET w == Len(wrappers) + 1
                 IN  /\ Occurrences(SocketsOf(s), socket)' >= 1
                     /\ streamerIdToTikTokConnectionWrapperMap'[s] = w
                     /\ wrappers'[w].connect = "pending"
                     /\ wrappers'[w].onceConnected /\ wrappers'[w].onceDisconnected
       /\ \A socket \in Sockets, s \in StreamerIds :
              (Occurrences(SocketsOf(s), socket) >= 1 /\ ~disconnect(socket))
              => Occurrences(SocketsOf(s), socket)' >= 1
       /\ \A w \in 1..Len(wrappers) :
            \A socket \in Range(SocketsOf(wrappers[w].streamerId)) :
              /\ (onConnected(w) /\ wrappers[w].onceConnected)
                 => EmitsTo(onConnectedEmits(w), socket) >= 1
              /\ (onDisconnected(w) /\ wrappers[w].onceDisconnected)
                 => EmitsTo(onDisconnectedEmits(w), socket) >= 1
      ]_vars

\* C20 witness: one socket only ever connected, its subscribe created the
\* wrapper, it is still open and listed, and both signals were relayed.
C20_Witness ==
    \E socket \in Sockets :
        /\ socketState[socket] = "open"
        /\ \A x \in Sockets \ {socket} : socketState[x] = "none"
        /\ Len(wrappers) = 1
        /\ SocketsOf(wrappers[1].streamerId) = <<socket>>
        /\ ~wrappers[1].onceConnected
        /\ ~wrappers[1].onceDisconnected

====
